---- MODULE Spec2Model ----
(***************************************************************************)
(* A model of submodmax/visualize.py: visualize_scenario (the two-row      *)
(* layout, the straight/curved edge classification, the drawing layers and *)
(* the title), visualize_assignment_comparison (the comparison report) and *)
(* visualize_best_worst_scenarios (the 2 x 5 grid).                        *)
(*                                                                         *)
(* Numbers.  x coordinates are kept in half units (x2 = 2 * x) and y       *)
(* coordinates in tenths (y10 = 10 * y), so every coordinate of the code   *)
(* (a multiple of 0.5, resp. 0.1 and -0.2) is an integer here.  An         *)
(* efficiency is kept in thousandths.  A Python exception is the state     *)
(* pc = "raised" with the exception's name in err: nothing runs after it.  *)
(***************************************************************************)
EXTENDS Integers, Sequences, FiniteSets, TLC

(* ------------------------------ bounds -------------------------------- *)
MaxAgents == 3         \* agents of a scenario whose graph or assignment varies
MaxTargets == 2        \* targets of such a scenario
MaxEdges == 3          \* edges of a scenario graph
MaxRowAgents == 6      \* agents of a scenario whose layout alone varies
MaxRowTargets == 6     \* targets of such a scenario
MaxList == 2           \* len(assignment_list)
MaxScore == 3          \* an assignment's score
MaxPairs == 6          \* len(best), len(worst)

VARIABLES
    (* visualize_scenario: parameters *)
    agent_count,        \* len(G), the agents are 1..agent_count
    target_count,       \* len(target_values), the targets are 1..target_count
    edges,              \* the edge set of scenario.get_graph_copy()
    action_sets,        \* scenario.get_action_set(): agent -> set of targets
    assignment,         \* [supplied, pairs]: None, or (agent, target|None) pairs
    title,
    metric,
    metric_value,       \* as the f-string formats it; "None" is Python's None
    show_metric_value,
    show_title,
    figure_directory,   \* TRUE when a directory is given
    (* visualize_scenario: locals and effects *)
    pc,
    err,
    pos,                \* node -> [x2, y10]
    straight_edges,
    curved_edges,
    drawn,              \* the draw calls made on ax, in order
    ax_title,           \* what ax.set_title received; <<>> while unset
    saved,              \* plt.savefig was called
    (* visualize_assignment_comparison *)
    list_len,           \* len(assignment_list); candidate k is assignment_list[k-1]
    titles_supplied,    \* FALSE when assignment_titles is None
    assignment_titles,
    opt_val,
    index,              \* the loop index (also of visualize_best_worst_scenarios)
    data,               \* the rows of the table
    rendered,           \* the visualize_scenario calls that returned, in order
    files,              \* the images saved, in order
    failed,             \* <<k>> once the render of view k raised (0: "Optimal")
    printed,            \* the table was printed
    (* visualize_best_worst_scenarios *)
    best_len,
    worst_len,
    grid,               \* the cells of the 2 x 5 grid rendered so far, in order
    grid_saved          \* the combined image was saved

vsVars == <<agent_count, target_count, edges, action_sets, assignment, title,
            metric, metric_value, show_metric_value, show_title,
            figure_directory, pc, err, pos, straight_edges, curved_edges,
            drawn, ax_title, saved>>

acVars == <<list_len, titles_supplied, assignment_titles, opt_val, index, data,
            rendered, files, failed, printed>>

bwVars == <<best_len, worst_len, grid, grid_saved>>

vars == <<vsVars, acVars, bwVars>>

(* ------------------------- visualize_scenario ------------------------- *)

RECURSIVE SumX2(_, _)
(* sum(x for each node of ns), over the position map p *)
SumX2(p, ns) ==
    IF ns = {} THEN 0
    ELSE LET n == CHOOSE m \in ns : TRUE
         IN  p[n].x2 + SumX2(p, ns \ {n})

(* pseudo_targets[target] = agent_count + target *)
PseudoTarget(A, target) == A + target

PseudoTargets(A, T) == {PseudoTarget(A, t) : t \in 1..T}

(* pos_top: agent -> (agent - 1, 0.1) *)
PosTop(A) == [agent \in 1..A |-> [x2 |-> 2 * (agent - 1), y10 |-> 1]]

(* pos_bottom: pseudo_targets[i] -> (i - 1, -0.2) *)
PosBottom(A, T) ==
    [p \in PseudoTargets(A, T) |-> [x2 |-> 2 * ((p - A) - 1), y10 |-> -2]]

(* center_x_top = sum(x_coords_top) / len(x_coords_top), in half units.    *)
(* The sum of 0..A-1 is A(A-1)/2, so the quotient (A-1)/2 is exact in      *)
(* floating point and 2 * center_x_top is the integer quotient below.      *)
CenterXTop2(A) == SumX2(PosTop(A), 1..A) \div A

ShiftX2Half(A, T) == CenterXTop2(A) - T

(* shift_x = center_x_top - (len(pos_bottom) - 1) / 2, in half units *)
ShiftX2(A, T) == CenterXTop2(A) - (T - 1)

PosBottomCentered(A, T) ==
    [p \in PseudoTargets(A, T) |->
        [x2 |-> PosBottom(A, T)[p].x2 + ShiftX2(A, T),
         y10 |-> PosBottom(A, T)[p].y10]]

(* pos = {**pos_top, **pos_bottom_centered} *)
Pos(A, T) == PosTop(A) @@ PosBottomCentered(A, T)

Abs(n) == IF n < 0 THEN -n ELSE n

RECURSIVE EdgeList(_)
(* G.edges() as a list: the edge set in a fixed iteration order *)
EdgeList(E) ==
    IF E = {} THEN <<>>
    ELSE LET e == CHOOSE a \in E :
                    \A b \in E : a[1] < b[1] \/ (a[1] = b[1] /\ a[2] <= b[2])
         IN  <<e>> \o EdgeList(E \ {e})

IsStraight(e) == Abs(e[1] - e[2]) = 1

IsCurvedLoose(e) == Abs(e[1] - e[2]) >= 1

IsCurved(e) == Abs(e[1] - e[2]) > 1

(* [(u, v) for u, v in G.edges() if abs(u - v) == 1] *)
StraightEdges(E) == SelectSeq(EdgeList(E), IsStraight)

(* [(u, v) for u, v in G.edges() if abs(u - v) > 1] *)
CurvedEdges(E) == SelectSeq(EdgeList(E), IsCurved)

RECURSIVE ActionSetEdgesFrom(_, _, _)
ActionSetEdgesFrom(A, sets, u) ==
    IF u > A THEN <<>>
    ELSE EdgeList({<<u, v + A>> : v \in sets[u]})
            \o ActionSetEdgesFrom(A, sets, u + 1)

(* [(u, v + agent_count) for u, action_set in action_sets.items() for v in action_set] *)
ActionSetEdges(A, sets) == ActionSetEdgesFrom(A, sets, 1)

(* `if assignment:` *)
Truthy(a) == a.supplied

KeepsEveryPair(pair) == TRUE

(* `if target:` is false for None and for 0, which are both 0 here *)
KeepsPair(pair) == pair[2] # 0

(* the loop over assignment.get_assignment_pairs() *)
AssignmentEdges(A, pairs) ==
    [i \in 1..Len(SelectSeq(pairs, KeepsPair)) |->
        <<SelectSeq(pairs, KeepsPair)[i][1],
          PseudoTarget(A, SelectSeq(pairs, KeepsPair)[i][2])>>]

(* mod_title; the mathtext delimiters $...$ are markup and left out *)
ModTitle(t, a, m, mv, smv) ==
    IF Truthy(a) /\ smv
    THEN IF m = "efficiency" THEN <<t, " - ", "gamma(x) = ", mv>>
         ELSE IF m = "score" THEN <<t, " - ", "f(x) = ", mv>>
         ELSE <<t>>
    ELSE <<t>>

(* ---- the calls of visualize_scenario that are explored ---------------- *)
(* The parameters are independent of each other, so they are varied one    *)
(* group at a time around the call on a small base scenario.               *)

Metrics == {"score", "efficiency", "other"}
MetricValues == {"None", "3", "0.667"}
Titles == {"Visual", "Optimal"}

NoAssignment == [supplied |-> FALSE, pairs |-> <<>>]

AssignmentOf(A, f) == [supplied |-> TRUE, pairs |-> [i \in 1..A |-> <<i, f[i]>>]]

BaseEdges(A) ==
    {<<i, i + 1>> : i \in 1..(A - 1)} \cup (IF A >= 3 THEN {<<1, A>>} ELSE {})

BaseActionSets(A, T) == [a \in 1..A |-> {t \in 1..T : t = a \/ t = a - 1}]

Call(A, T, E, sets, a, t, m, mv, smv, st, dir) ==
    [agent_count |-> A, target_count |-> T, edges |-> E, action_sets |-> sets,
     assignment |-> a, title |-> t, metric |-> m, metric_value |-> mv,
     show_metric_value |-> smv, show_title |-> st, figure_directory |-> dir]

GeometryCalls ==
    {Call(A, T, BaseEdges(A), BaseActionSets(A, T), NoAssignment, "Visual",
          "score", "None", TRUE, TRUE, FALSE) :
        A \in 0..MaxRowAgents, T \in 0..MaxRowTargets}

GraphCalls ==
    UNION {{Call(A, 1, E, BaseActionSets(A, 1), NoAssignment, "Visual",
                 "score", "None", TRUE, TRUE, FALSE) :
              E \in {S \in SUBSET ((1..A) \X (1..A)) : Cardinality(S) <= MaxEdges}} :
           A \in 1..MaxAgents}

AssignmentCalls ==
    UNION {{Call(A, T, BaseEdges(A), sets, AssignmentOf(A, f), "Visual",
                 "score", "3", TRUE, TRUE, FALSE) :
              f \in [1..A -> 0..T],
              sets \in {[a \in 1..A |-> {}], BaseActionSets(A, T),
                        [a \in 1..A |-> 1..T]}} :
           A \in 1..MaxAgents, T \in 1..MaxTargets}

TitleCalls ==
    {Call(2, 1, BaseEdges(2), BaseActionSets(2, 1), a, t, m, mv, smv, st, dir) :
        a \in {NoAssignment, AssignmentOf(2, [i \in 1..2 |-> 1])},
        t \in Titles, m \in Metrics, mv \in MetricValues,
        smv \in BOOLEAN, st \in BOOLEAN, dir \in BOOLEAN}

ScenarioCalls == GeometryCalls \cup GraphCalls \cup AssignmentCalls \cup TitleCalls

VS_Idle ==
    /\ agent_count = 0 /\ target_count = 0 /\ edges = {} /\ action_sets = <<>>
    /\ assignment = NoAssignment /\ title = "" /\ metric = "score"
    /\ metric_value = "None" /\ show_metric_value = TRUE /\ show_title = TRUE
    /\ pos = <<>> /\ straight_edges = <<>>
    /\ curved_edges = <<>> /\ drawn = <<>> /\ ax_title = <<>> /\ saved = FALSE

AC_Idle ==
    /\ list_len = 0 /\ titles_supplied = FALSE /\ assignment_titles = <<>>
    /\ opt_val = 0 /\ data = <<>> /\ rendered = <<>> /\ files = <<>>
    /\ failed = <<>> /\ printed = FALSE

BW_Idle ==
    /\ best_len = 0 /\ worst_len = 0 /\ grid = <<>> /\ grid_saved = FALSE

VS_Init ==
    /\ AC_Idle /\ BW_Idle /\ index = 0
    /\ \E c \in ScenarioCalls :
        /\ agent_count = c.agent_count
        /\ target_count = c.target_count
        /\ edges = c.edges
        /\ action_sets = c.action_sets
        /\ assignment = c.assignment
        /\ title = c.title
        /\ metric = c.metric
        /\ metric_value = c.metric_value
        /\ show_metric_value = c.show_metric_value
        /\ show_title = c.show_title
        /\ figure_directory = c.figure_directory
    /\ pc = "geometry"
    /\ err = "none"
    /\ pos = <<>>
    /\ straight_edges = <<>>
    /\ curved_edges = <<>>
    /\ drawn = <<>>
    /\ ax_title = <<>>
    /\ saved = FALSE

vsParams == <<agent_count, target_count, edges, action_sets, assignment, title,
              metric, metric_value, show_metric_value, show_title,
              figure_directory>>

Layer(kind, items) == [layer |-> kind, items |-> items]

(* lines 54-66: node_size = 500 * (5 / agent_count) divides by the agent   *)
(* count; the position map follows                                         *)
VS_Geometry ==
    /\ pc = "geometry"
    /\ IF agent_count = 0
       THEN /\ pc' = "raised"
            /\ err' = "ZeroDivisionError"
            /\ pos' = pos
       ELSE /\ pc' = "agent_nodes"
            /\ err' = err
            /\ pos' = Pos(agent_count, target_count)
    /\ UNCHANGED <<vsParams, straight_edges, curved_edges, drawn, ax_title, saved, acVars, bwVars>>

(* line 69 *)
VS_DrawAgentNodes ==
    /\ pc = "agent_nodes"
    /\ drawn' = Append(drawn, Layer("agent_nodes", 1..agent_count))
    /\ pc' = "classify"
    /\ UNCHANGED <<vsParams, err, pos, straight_edges, curved_edges, ax_title, saved, acVars, bwVars>>

(* lines 70-71 *)
VS_ClassifyEdges ==
    /\ pc = "classify"
    /\ straight_edges' = StraightEdges(edges)
    /\ curved_edges' = CurvedEdges(edges)
    /\ pc' = "straight_edges"
    /\ UNCHANGED <<vsParams, err, pos, drawn, ax_title, saved, acVars, bwVars>>

(* line 72 *)
VS_DrawStraightEdges ==
    /\ pc = "straight_edges"
    /\ drawn' = Append(drawn, Layer("straight_edges", straight_edges))
    /\ pc' = "curved_edges"
    /\ UNCHANGED <<vsParams, err, pos, straight_edges, curved_edges, ax_title, saved, acVars, bwVars>>

(* line 73 *)
VS_DrawCurvedEdges ==
    /\ pc = "curved_edges"
    /\ drawn' = Append(drawn, Layer("curved_edges", curved_edges))
    /\ pc' = "target_nodes"
    /\ UNCHANGED <<vsParams, err, pos, straight_edges, curved_edges, ax_title, saved, acVars, bwVars>>

(* line 76 *)
VS_DrawTargetNodes ==
    /\ pc = "target_nodes"
    /\ drawn' = Append(drawn, Layer("target_nodes",
                                    PseudoTargets(agent_count, target_count)))
    /\ pc' = "action_set_edges"
    /\ UNCHANGED <<vsParams, err, pos, straight_edges, curved_edges, ax_title, saved, acVars, bwVars>>

(* lines 77-78 *)
VS_DrawActionSetEdges ==
    /\ pc = "action_set_edges"
    /\ drawn' = Append(drawn, Layer("action_set_edges",
                                    ActionSetEdges(agent_count, action_sets)))
    /\ pc' = "assignment_edges"
    /\ UNCHANGED <<vsParams, err, pos, straight_edges, curved_edges, ax_title, saved, acVars, bwVars>>

(* lines 81-86 *)
VS_DrawAssignmentEdges ==
    /\ pc = "assignment_edges"
    /\ \/ /\ Truthy(assignment)
          /\ drawn' = Append(drawn, Layer("assignment_edges",
                                AssignmentEdges(agent_count, assignment.pairs)))
       \/ /\ ~Truthy(assignment)
          /\ drawn' = drawn
    /\ pc' = "labels"
    /\ UNCHANGED <<vsParams, err, pos, straight_edges, curved_edges, ax_title, saved, acVars, bwVars>>

(* lines 89-101: the node labels and the t_<id> captions *)
VS_DrawLabels ==
    /\ pc = "labels"
    /\ drawn' = drawn \o <<Layer("agent_labels", 1..agent_count),
                           Layer("target_labels",
                                 PseudoTargets(agent_count, target_count)),
                           Layer("target_captions", 1..target_count)>>
    /\ pc' = "title"
    /\ UNCHANGED <<vsParams, err, pos, straight_edges, curved_edges, ax_title, saved, acVars, bwVars>>

(* lines 104-112 *)
VS_SetTitle ==
    /\ pc = "title"
    /\ \/ /\ show_title
          /\ ax_title' = ModTitle(title, assignment, metric, metric_value,
                                  show_metric_value)
       \/ /\ ~show_title
          /\ ax_title' = ax_title
    /\ pc' = "save"
    /\ UNCHANGED <<vsParams, err, pos, straight_edges, curved_edges, drawn, saved,
                   acVars, bwVars>>

(* lines 114-123 *)
VS_Save ==
    /\ pc = "save"
    /\ saved' = figure_directory
    /\ pc' = "done"
    /\ UNCHANGED <<vsParams, err, pos, straight_edges, curved_edges, drawn, ax_title,
                   acVars, bwVars>>

VS_Next ==
    \/ VS_Geometry
    \/ VS_DrawAgentNodes
    \/ VS_ClassifyEdges
    \/ VS_DrawStraightEdges
    \/ VS_DrawCurvedEdges
    \/ VS_DrawTargetNodes
    \/ VS_DrawActionSetEdges
    \/ VS_DrawAssignmentEdges
    \/ VS_DrawLabels
    \/ VS_SetTitle
    \/ VS_Save

SpecScenario == VS_Init /\ [][VS_Next]_vars

(* ---------------------- claims: visualize_scenario -------------------- *)

SeqSet(q) == {q[i] : i \in 1..Len(q)}

NoRepeats(q) == \A i, j \in 1..Len(q) : q[i] = q[j] => i = j

Kinds(q) == [i \in 1..Len(q) |-> q[i].layer]

IsPrefix(q, r) == Len(q) <= Len(r) /\ \A i \in 1..Len(q) : q[i] = r[i]

(* lines 70-71 have run *)
Classified ==
    pc \in {"straight_edges", "curved_edges", "target_nodes", "action_set_edges",
            "assignment_edges", "labels", "title", "save", "done"}

(* line 112 has run or was skipped *)
Titled == pc \in {"save", "done"}

(* C1, as stated: for every directed edge set over the agents, the straight *)
(* and the curved list are disjoint and their union is the graph's edge set *)
C1_EdgePartition ==
    Classified =>
        /\ SeqSet(straight_edges) \cap SeqSet(curved_edges) = {}
        /\ SeqSet(straight_edges) \cup SeqSet(curved_edges) = edges

(* C1, amended: the straight list holds exactly the edges with |u - v| = 1  *)
(* and the curved list exactly those with |u - v| > 1, each edge once; the  *)
(* lists are disjoint and their union is the set of the graph's edges       *)
(* between two different agents: a self-loop (u, u) is in neither list      *)
C1_EdgePartitionWithoutLoops ==
    Classified =>
        /\ NoRepeats(straight_edges) /\ NoRepeats(curved_edges)
        /\ SeqSet(straight_edges) \cap SeqSet(curved_edges) = {}
        /\ SeqSet(straight_edges) \cup SeqSet(curved_edges)
              = {e \in edges : e[1] # e[2]}
        /\ \A e \in SeqSet(straight_edges) : e[1] - e[2] \in {1, -1}
        /\ \A e \in SeqSet(curved_edges) : e[1] - e[2] \notin {-1, 0, 1}

C1_Witness ==
    /\ Classified
    /\ straight_edges # <<>> /\ curved_edges # <<>>
    /\ \E e \in edges : e[1] = e[2]

(* C2: with at least one agent and one target the geometry step never      *)
(* divides by zero, agent i is at x = i - 1, the targets are one unit      *)
(* apart in target order, and the mean x of the target row equals the mean *)
(* x of the agent row                                                      *)
C2_TargetRowCentered ==
    (agent_count >= 1 /\ target_count >= 1 /\ pc # "geometry") =>
        /\ pc # "raised" /\ err = "none"
        /\ DOMAIN pos = 1..(agent_count + target_count)
        /\ \A i \in 1..agent_count : pos[i].x2 = 2 * (i - 1) /\ pos[i].y10 = 1
        /\ \A j \in 1..target_count : pos[agent_count + j].y10 = -2
        /\ \A j \in 1..(target_count - 1) :
              pos[agent_count + j + 1].x2 - pos[agent_count + j].x2 = 2
        /\ SumX2(pos, (agent_count + 1)..(agent_count + target_count)) * agent_count
              = SumX2(pos, 1..agent_count) * target_count

C2_Witness ==
    /\ pc = "done" /\ agent_count = 4 /\ target_count = 3
    /\ pos[agent_count + 1].x2 = 1

(* C6: with the title shown, the title is "<title> - f(x) = <value>" resp.  *)
(* "<title> - gamma(x) = <value>" when an assignment and a metric value are *)
(* supplied, metric display is enabled and the metric is 'score' resp.      *)
(* 'efficiency'; in every other case it is the caller's title verbatim      *)
C6_TitleComposition ==
    (Titled /\ show_title) =>
        IF assignment.supplied /\ metric_value # "None" /\ show_metric_value
           /\ metric \in {"score", "efficiency"}
        THEN ax_title = <<title, " - ",
                          IF metric = "score" THEN "f(x) = " ELSE "gamma(x) = ",
                          metric_value>>
        ELSE ax_title = <<title>>

(* C7: an assignment without a metric value, metric display requested: the  *)
(* call does not fail and the title is the caller's title, not annotated    *)
C7_MissingMetricValue ==
    (assignment.supplied /\ metric_value = "None" /\ show_metric_value
     /\ show_title /\ agent_count >= 1) =>
        /\ pc # "raised"
        /\ Titled => ax_title = <<title>>

AgentGraphAndActionSetLayers ==
    <<"agent_nodes", "straight_edges", "curved_edges", "target_nodes",
      "action_set_edges">>

LabelLayers == <<"agent_labels", "target_labels", "target_captions">>

(* C9: the draw calls are made in the order agent nodes, straight edges,    *)
(* curved edges, target nodes, action-set edges, then, exactly when an      *)
(* assignment is supplied, the assignment edges (no edge layer follows      *)
(* them); they hold one edge agent -> target per agent with an assigned     *)
(* target, in pair order, and none for an agent without one                 *)
C9_DrawOrder ==
    LET order == AgentGraphAndActionSetLayers
                    \o (IF assignment.supplied THEN <<"assignment_edges">> ELSE <<>>)
                    \o LabelLayers
        assigned == {p \in SeqSet(assignment.pairs) : p[2] # 0}
    IN  /\ IsPrefix(Kinds(drawn), order)
        /\ pc \in {"title", "save", "done"} => Kinds(drawn) = order
        /\ pc = "labels" => Len(drawn) = Len(order) - Len(LabelLayers)
        /\ \A i \in 1..Len(drawn) :
              drawn[i].layer = "assignment_edges" =>
                 /\ NoRepeats(drawn[i].items)
                 /\ Len(drawn[i].items) = Cardinality(assigned)
                 /\ SeqSet(drawn[i].items)
                       = {<<p[1], agent_count + p[2]>> : p \in assigned}
                 /\ \A j \in (i + 1)..Len(drawn) :
                       drawn[j].layer \in SeqSet(LabelLayers)

C9_Witness ==
    /\ pc = "done"
    /\ \E p \in SeqSet(assignment.pairs) : p[2] = 0
    /\ \E p \in SeqSet(assignment.pairs) : p[2] # 0
    /\ Len(drawn) = 9
    /\ drawn[6].layer = "assignment_edges" /\ drawn[6].items # <<>>

(* ------------------ visualize_assignment_comparison ------------------- *)

(* opt_assignment.get_value(); 16 makes score / opt_val fall on a tie      *)
OptValues == (0..MaxScore) \cup {16}

OptimalTitle == <<"Optimal">>

(* a caller's title for candidate i *)
CallerTitle(i) == <<"Rule ", i>>

(* [f"Assignment #{i}" for i in range(1, len(assignment_list))] *)
DefaultTitles(n) == [i \in 1..(n - 1) |-> <<"Assignment #", i>>]

(* `if not assignment_titles:` is taken for None and for an empty list *)
TitlesInUse(given, n) == IF given = <<>> THEN DefaultTitles(n) ELSE given

Round3Down(val, opt) == (1000 * val) \div opt

(* round(val / opt, 3) in thousandths: the nearest thousandth, a tie going *)
(* to the even one.  For opt < 80 a tie is a multiple of 1/16, which the   *)
(* float quotient holds exactly, and any other quotient is further from a  *)
(* tie than the float error: the rounding of the exact quotient is the     *)
(* rounding of the float.                                                  *)
Round3(val, opt) ==
    LET q == (1000 * val) \div opt
        r == (1000 * val) % opt
    IN  IF 2 * r > opt \/ (2 * r = opt /\ q % 2 = 1) THEN q + 1 ELSE q

(* a row of data: the rule, the candidate whose choices fill x1..xN (0 is  *)
(* the optimal assignment), f(x), and the efficiency in thousandths        *)
Row(rule, k, fx, gamma) == [rule |-> rule, x |-> k, fx |-> fx, gamma |-> gamma]

(* what a visualize_scenario call of this function leaves: the view's      *)
(* title text (metric "score", metric display and title shown by default)  *)
View(t, k, val) ==
    [title |-> t, x |-> k,
     text |-> ModTitle(t, [supplied |-> TRUE, pairs |-> <<>>], "score", val, TRUE)]

AC_Init ==
    /\ VS_Idle /\ BW_Idle
    /\ list_len \in 0..MaxList
    /\ titles_supplied \in BOOLEAN
    /\ assignment_titles \in
          IF titles_supplied
          THEN {[i \in 1..m |-> CallerTitle(i)] : m \in 0..(MaxList + 1)}
          ELSE {<<>>}
    /\ opt_val \in OptValues
    /\ figure_directory \in BOOLEAN
    /\ index = 0
    /\ data = <<>> /\ rendered = <<>> /\ files = <<>> /\ failed = <<>>
    /\ printed = FALSE
    /\ pc = "ac_setup"
    /\ err = "none"

HasItemWrapped(len, i) == len > 0

(* a list subscript list[i], i >= 0: it raises IndexError unless i < len   *)
HasItem(len, i) == i < len

acLocals == <<list_len, titles_supplied, opt_val>>

(* lines 141-153 *)
AC_Setup ==
    /\ pc = "ac_setup"
    /\ data' = <<Row(OptimalTitle, 0, opt_val, 1000)>>
    /\ assignment_titles' = TitlesInUse(assignment_titles, list_len)
    /\ pc' = "ac_optimal"
    /\ UNCHANGED <<vsParams, err, pos, straight_edges, curved_edges, drawn,
                   ax_title, saved, acLocals, index, rendered, files, failed,
                   printed, bwVars>>

AC_RenderSkipped(k) ==
    /\ pc' = "ac_loop"
    /\ index' = IF k = 0 THEN index ELSE index + 1
    /\ failed' = <<k>>
    /\ UNCHANGED <<err, data, rendered, files>>

(* the visualize_scenario call of view k raises: nothing catches it, it    *)
(* leaves visualize_assignment_comparison                                  *)
AC_RenderRaises(k) ==
    /\ pc' = "raised"
    /\ err' = "RenderError"
    /\ failed' = <<k>>
    /\ UNCHANGED <<index, data, rendered, files>>

(* the visualize_scenario call of view k returns; it saved an image named  *)
(* after the title when a directory was given                              *)
AC_Renders(t, k, val) ==
    /\ rendered' = Append(rendered, View(t, k, val))
    /\ files' = IF figure_directory THEN Append(files, t) ELSE files

(* line 155 *)
AC_RenderOptimal ==
    /\ pc = "ac_optimal"
    /\ \/ /\ AC_Renders(OptimalTitle, 0, opt_val)
          /\ pc' = "ac_loop"
          /\ UNCHANGED <<err, index, data, failed>>
       \/ AC_RenderRaises(0)
    /\ UNCHANGED <<vsParams, pos, straight_edges, curved_edges, drawn, ax_title,
                   saved, acLocals, assignment_titles, printed, bwVars>>

(* lines 157-160: one pass of the loop, for assignment_list[index] with    *)
(* the score that score_assignment returns for it                          *)
AC_Candidate ==
    /\ pc = "ac_loop"
    /\ index < list_len
    /\ \E assignment_val \in 0..MaxScore :
        IF ~HasItem(Len(assignment_titles), index)
        THEN /\ pc' = "raised"
             /\ err' = "IndexError"
             /\ UNCHANGED <<index, data, rendered, files, failed>>
        ELSE \/ AC_RenderRaises(index + 1)
             \/ /\ AC_Renders(assignment_titles[index + 1], index + 1,
                              assignment_val)
                /\ failed' = failed
                /\ IF opt_val = 0
                   THEN /\ pc' = "raised"
                        /\ err' = "ZeroDivisionError"
                        /\ UNCHANGED <<index, data>>
                   ELSE /\ data' = Append(data,
                                     Row(assignment_titles[index + 1], index + 1,
                                         assignment_val,
                                         Round3(assignment_val, opt_val)))
                        /\ index' = index + 1
                        /\ UNCHANGED <<pc, err>>
    /\ UNCHANGED <<vsParams, pos, straight_edges, curved_edges, drawn, ax_title,
                   saved, acLocals, assignment_titles, printed, bwVars>>

(* lines 162-165 *)
AC_Print ==
    /\ pc = "ac_loop"
    /\ index >= list_len
    /\ printed' = TRUE
    /\ pc' = "done"
    /\ UNCHANGED <<vsParams, err, pos, straight_edges, curved_edges, drawn,
                   ax_title, saved, acLocals, assignment_titles, index, data,
                   rendered, files, failed, bwVars>>

AC_Next ==
    \/ AC_Setup
    \/ AC_RenderOptimal
    \/ AC_Candidate
    \/ AC_Print

SpecComparison == AC_Init /\ [][AC_Next]_vars

(* ---------------- claims: visualize_assignment_comparison ------------- *)

(* the call has returned or raised *)
AC_Ended == pc \in {"done", "raised"} /\ data # <<>>

(* C3: every call, with or without titles, emits a report of exactly       *)
(* 1 + len(assignment_list) rows, "Optimal" and then one row per candidate *)
(* in list order (calls whose titles are too few, whose optimal score is 0 *)
(* or whose renders fail are left aside)                                   *)
C3_ReportRowCount ==
    (/\ AC_Ended
     /\ err \notin {"RenderError", "ZeroDivisionError"}
     /\ titles_supplied => Len(assignment_titles) >= list_len) =>
        /\ printed
        /\ Len(data) = 1 + list_len
        /\ data[1].rule = OptimalTitle
        /\ \A k \in 1..list_len : data[k + 1].x = k

(* C4: without titles, the titles in use are "Assignment #i" for i in      *)
(* 1..len(assignment_list), one per candidate                              *)
C4_DefaultTitles ==
    (~titles_supplied /\ pc # "ac_setup" /\ data # <<>>) =>
        assignment_titles = [i \in 1..list_len |-> <<"Assignment #", i>>]

(* C5, as stated: the efficiency of every candidate row is exactly its     *)
(* f(x) divided by the f(x) of the "Optimal" row, whose efficiency is 1    *)
C5_ExactEfficiency ==
    data # <<>> =>
        /\ data[1].gamma = 1000
        /\ \A k \in 2..Len(data) : data[k].gamma * data[1].fx = 1000 * data[k].fx

(* C5, amended: the efficiency of every candidate row is its f(x) divided  *)
(* by the f(x) of the "Optimal" row (which is not 0) and rounded to three  *)
(* decimals, a tie going to the even thousandth; the "Optimal" row's is 1  *)
C5_RoundedEfficiency ==
    data # <<>> =>
        /\ data[1].gamma = 1000 /\ data[1].fx = opt_val
        /\ \A k \in 2..Len(data) :
              LET off == data[k].gamma * data[1].fx - 1000 * data[k].fx
              IN  /\ data[1].fx > 0
                  /\ 2 * Abs(off) <= data[1].fx
                  /\ 2 * Abs(off) = data[1].fx => data[k].gamma % 2 = 0

C5_Witness ==
    /\ printed
    /\ Len(data) = 3
    /\ data[1].fx = 16
    /\ data[2].fx = 1 /\ data[2].gamma = 62
    /\ data[3].fx = 3 /\ data[3].gamma = 188

(* C10: the optimal view is rendered first and the candidates then in list *)
(* order, each saved when a directory is given; when the render of view k  *)
(* raises, exactly the views before k are rendered and saved, the call has *)
(* raised, and no table is emitted; a table is emitted only after every    *)
(* candidate was rendered                                                  *)
C10_AbortOnFailedRender ==
    /\ \A i \in 1..Len(rendered) : rendered[i].x = i - 1
    /\ Len(rendered) <= 1 + list_len
    /\ files = IF figure_directory
               THEN [i \in 1..Len(rendered) |-> rendered[i].title]
               ELSE <<>>
    /\ failed # <<>> =>
          /\ pc = "raised" /\ ~printed
          /\ Len(rendered) = failed[1]
          /\ Len(data) <= 1 + Len(rendered)
    /\ printed => Len(rendered) = 1 + list_len /\ failed = <<>>

C10_Witness ==
    /\ pc = "raised" /\ failed = <<1>> /\ list_len = 2
    /\ Len(rendered) = 1 /\ Len(files) = 1 /\ ~printed

(* ------------------- visualize_best_worst_scenarios ------------------- *)

(* `for index in range(5)` and the 2 x 5 subplots *)
GridColumns == 5

best_titles == <<"Best", "2nd Best", "3rd Best", "4th Best", "5th Best">>

worst_titles == <<"Worst", "2nd Worst", "3rd Worst", "4th Worst", "5th Worst">>

(* the visualize_scenario call on axes[row][col] for pair number col of a  *)
(* list, with its rank as the title                                        *)
Cell(row, col, rank) == [row |-> row, col |-> col, rank |-> rank]

BW_Init ==
    /\ VS_Idle /\ AC_Idle
    /\ figure_directory = FALSE
    /\ best_len \in 0..MaxPairs
    /\ worst_len \in 0..MaxPairs
    /\ index = 0
    /\ grid = <<>>
    /\ grid_saved = FALSE
    /\ pc = "bw_best"
    /\ err = "none"

(* lines 184-194: best[index] and its view in the first row; the          *)
(* visualize_scenario call returns or raises                               *)
BW_Best ==
    /\ pc = "bw_best"
    /\ IF HasItem(best_len, index)
       THEN \/ /\ grid' = Append(grid, Cell(0, index, best_titles[index + 1]))
               /\ pc' = "bw_worst"
               /\ err' = err
            \/ /\ pc' = "raised"
               /\ err' = "RenderError"
               /\ grid' = grid
       ELSE /\ pc' = "raised"
            /\ err' = "IndexError"
            /\ grid' = grid
    /\ UNCHANGED <<vsParams, pos, straight_edges, curved_edges, drawn, ax_title,
                   saved, acVars, best_len, worst_len, grid_saved>>

(* lines 195-205: worst[index] and its view in the second row, then the    *)
(* next index                                                              *)
BW_Worst ==
    /\ pc = "bw_worst"
    /\ IF HasItem(worst_len, index)
       THEN \/ /\ grid' = Append(grid, Cell(1, index, worst_titles[index + 1]))
               /\ index' = index + 1
               /\ pc' = IF index + 1 < GridColumns THEN "bw_best" ELSE "bw_save"
               /\ err' = err
            \/ /\ pc' = "raised"
               /\ err' = "RenderError"
               /\ UNCHANGED <<grid, index>>
       ELSE /\ pc' = "raised"
            /\ err' = "IndexError"
            /\ UNCHANGED <<grid, index>>
    /\ UNCHANGED <<vsParams, pos, straight_edges, curved_edges, drawn, ax_title,
                   saved, list_len, titles_supplied, assignment_titles, opt_val,
                   data, rendered, files, failed, printed, best_len, worst_len,
                   grid_saved>>

(* lines 207-214 *)
BW_Save ==
    /\ pc = "bw_save"
    /\ grid_saved' = TRUE
    /\ pc' = "done"
    /\ UNCHANGED <<vsParams, err, pos, straight_edges, curved_edges, drawn,
                   ax_title, saved, acVars, best_len, worst_len, grid>>

BW_Next ==
    \/ BW_Best
    \/ BW_Worst
    \/ BW_Save

SpecGrid == BW_Init /\ [][BW_Next]_vars

(* ----------------- claims: visualize_best_worst_scenarios ------------- *)

Min(a, b) == IF a <= b THEN a ELSE b

(* C8, as stated: when the best or the worst list has a length other than  *)
(* 5, no diagram is rendered from it and no combined image is saved        *)
C8_RejectsOtherLengths ==
    (best_len # GridColumns \/ worst_len # GridColumns) =>
        grid = <<>> /\ ~grid_saved

(* C8, amended: when the best or the worst list has fewer than 5 pairs the *)
(* call saves no combined image: unless a render fails first, it raises    *)
(* IndexError at the first missing pair, after rendering the views of the  *)
(* pairs before it; a list of more than 5 pairs is not rejected: when no   *)
(* render fails, the first five pairs of each list are rendered, the rest  *)
(* ignored, and the combined image is saved                                *)
C8_RaisesOnShortLists ==
    /\ pc = "raised" => ~grid_saved
    /\ err = "IndexError" =>
          /\ pc = "raised"
          /\ best_len < GridColumns \/ worst_len < GridColumns
          /\ Len(grid) = IF best_len <= worst_len THEN 2 * best_len
                         ELSE 2 * worst_len + 1
    /\ (best_len < GridColumns \/ worst_len < GridColumns) =>
          ~grid_saved /\ pc # "done" /\ pc # "bw_save"
    /\ pc = "done" =>
          /\ grid_saved
          /\ best_len >= GridColumns /\ worst_len >= GridColumns
          /\ Len(grid) = 2 * GridColumns
          /\ \A i \in 1..GridColumns :
                /\ grid[2 * i - 1] = Cell(0, i - 1, best_titles[i])
                /\ grid[2 * i] = Cell(1, i - 1, worst_titles[i])
    /\ Len(grid) <= 2 * Min(GridColumns, Min(best_len, worst_len)) + 1

C8_Witness ==
    /\ err = "IndexError" /\ best_len > GridColumns /\ worst_len = 2
    /\ Len(grid) = 5 /\ ~grid_saved

====
